---- MODULE Spec2Model ----
(***************************************************************************)
(* rm_duplicates.py: one run of main() over a small directory tree.        *)
(*                                                                         *)
(* A path is kept as the sequence of its components; PathStr gives the     *)
(* string os.path.join builds from them, and every length the program      *)
(* takes (len(s) in reorder) is the length of that string.                 *)
(***************************************************************************)
EXTENDS Integers, Sequences, FiniteSets

VARIABLES
    fs,         \* the filesystem: real path -> [kind, content, target]
    flag,       \* sys.argv flag, "-p" or "-d"
    pc,         \* position of main()
    stack,      \* the walk generators in progress, innermost last
    files,      \* content_dir.files, in dict (insertion) order
    out,        \* what print(content_dir) wrote; NoOutput before
    exc,        \* the path whose os.remove raised; NoPath when none
    fs0,        \* history: the filesystem when the run started
    yielded,    \* history: the paths walk has yielded, in order
    resolved,   \* history: content_dir.files as reorder left it
    attempted   \* history: the paths handed to os.remove, in order

vars == <<fs, flag, pc, stack, files, out, exc, fs0, yielded, resolved, attempted>>

-----------------------------------------------------------------------------
(* Bounds of the model *)

\* file contents are runs of at most this many zero bytes
MaxSize == 1

NoPath == <<>>
NoOutput == <<"nothing printed">>

Root == <<"r">>
DirSlot == <<"r", "d">>
LinkSlot == <<"r", "l">>
FileSlots == {<<"r", "a">>, <<"r", "b">>, <<"r", "d", "a">>, <<"r", "d", "cc">>}
LinkTargets == {<<"r", "a">>, <<"r", "d">>, Root}
Names == {"a", "b", "cc", "d", "l"}
Contents == {[i \in 1..n |-> 0] : n \in 0..MaxSize}

\* how many symbolic links os.stat follows before giving up (ELOOP)
MaxHops == 3

-----------------------------------------------------------------------------
(* The filesystem calls the program makes *)

Front(p) == SubSeq(p, 1, Len(p) - 1)
Last(p) == p[Len(p)]

\* os.path.join(dirname, name)
join(dirname, name) == Append(dirname, name)

RECURSIVE PathStr(_)
\* the string of a path: its components joined by "/"
PathStr(p) ==
    IF Len(p) = 1 THEN p[1] ELSE PathStr(Front(p)) \o "/" \o Last(p)

RECURSIVE RealPath(_, _, _)
\* where path leads once every symbolic link on it is followed (os.stat);
\* NoPath when nothing is there
RealPath(f, p, hops) ==
    IF p = Root THEN Root
    ELSE IF Len(p) <= 1 THEN NoPath
    ELSE LET parent == RealPath(f, Front(p), hops)
             q == Append(parent, Last(p))
         IN  IF parent = NoPath \/ q \notin DOMAIN f THEN NoPath
             ELSE IF f[q].kind = "link"
                  THEN IF hops = 0 THEN NoPath
                       ELSE RealPath(f, f[q].target, hops - 1)
                  ELSE q

\* the directory entry path names, links not followed at the last component
\* (os.lstat); NoPath when nothing is there
LPath(f, p) ==
    IF p = Root THEN Root
    ELSE IF Len(p) <= 1 THEN NoPath
    ELSE LET parent == RealPath(f, Front(p), MaxHops)
             q == Append(parent, Last(p))
         IN  IF parent = NoPath \/ q \notin DOMAIN f THEN NoPath ELSE q

isfile(f, p) ==
    LET q == RealPath(f, p, MaxHops) IN q # NoPath /\ f[q].kind = "file"

isdir(f, p) ==
    LET q == RealPath(f, p, MaxHops) IN q # NoPath /\ f[q].kind = "dir"

islink(f, p) ==
    LET q == LPath(f, p) IN q # NoPath /\ f[q].kind = "link"

\* the names os.listdir(dirname) returns, as a set
listdir(f, dirname) ==
    LET q == RealPath(f, dirname, MaxHops)
    IN  {n \in Names : Append(q, n) \in DOMAIN f}

\* the orders in which os.listdir may return a set of names
Orders(S) ==
    {s \in [1..Cardinality(S) -> S] : \A i, j \in 1..Cardinality(S) : s[i] = s[j] => i = j}

\* f.read() of open(file, 'rb')
read(f, p) == f[RealPath(f, p, MaxHops)].content

\* hashlib.sha1(content).hexdigest() for the contents the model has
sha1(content) ==
    CASE Len(content) = 0 -> "da39a3ee5e6b4b0d3255bfef95601890afd80709"
      [] Len(content) = 1 -> "5ba93c9db0cff93f52b521d7420e43f6eda2784f"
      [] Len(content) = 2 -> "1489f923c4dca729178b3e3233458550d8dddf29"
      [] Len(content) = 3 -> "29e2dcfbb16f63bb0254df7585a15bb6fb5e927d"
      [] Len(content) = 4 -> "9069ca78e7450a285173431b3e52c5c25299e473"

file_digest(f, file) == sha1(read(f, file))

getsize(f, file) == Len(read(f, file))

\* the filesystem after os.remove(path) succeeded
unlink(f, p) == [q \in DOMAIN f \ {LPath(f, p)} |-> f[q]]

-----------------------------------------------------------------------------
(* walk *)

\* a walk that takes a symbolic link to a file for the file
yields_links(f, path) == isfile(f, path)

\* line 39: the entry is yielded
yields(f, path) == isfile(f, path) /\ ~islink(f, path)

\* line 41: the entry is descended into
descends(f, path) == ~yields(f, path) /\ isdir(f, path) /\ ~islink(f, path)

\* a generator of walk(dirname) at its first step: the listing in some order
Frame(dirname, names) == [dirname |-> dirname, names |-> names]

Top == stack[Len(stack)]
Below == SubSeq(stack, 1, Len(stack) - 1)
NextPath == join(Top.dirname, Head(Top.names))
Advanced == Append(Below, Frame(Top.dirname, Tail(Top.names)))

-----------------------------------------------------------------------------
(* class Unique_content *)

Unique_content(digest, file, size) ==
    [digest |-> digest, file |-> file, size |-> size, rest |-> <<>>]

Unique_content_append(v, file) == [v EXCEPT !.rest = Append(@, file)]

\* len(s) of the sort key
len(s) == Len(PathStr(s))

\* list.insert of one element behind every element whose key is not larger
RECURSIVE insert_sorted(_, _)
insert_sorted(sorted, s) ==
    IF sorted = <<>> THEN <<s>>
    ELSE IF len(Head(sorted)) <= len(s)
         THEN <<Head(sorted)>> \o insert_sorted(Tail(sorted), s)
         ELSE <<s>> \o sorted

\* list.sort(key=len): stable, elements of equal key keep their order
RECURSIVE sort_by_len(_)
sort_by_len(l) ==
    IF l = <<>> THEN <<>>
    ELSE insert_sorted(sort_by_len(Front(l)), Last(l))

\* a reorder that leaves the list as it was appended to
reorder_unsorted(v) ==
    LET appended == Append(v.rest, v.file)
    IN  [v EXCEPT !.file = Head(appended), !.rest = Tail(appended)]

\* a reorder that puts self.file in front of the list before sorting
reorder_file_first(v) ==
    LET sorted == sort_by_len(<<v.file>> \o v.rest)
    IN  [v EXCEPT !.file = Head(sorted), !.rest = Tail(sorted)]

\* a reorder that reads the first element without popping it
reorder_unpopped(v) ==
    LET sorted == sort_by_len(Append(v.rest, v.file))
    IN  [v EXCEPT !.file = Head(sorted), !.rest = sorted]

Unique_content_reorder(v) ==
    LET appended == Append(v.rest, v.file)
        sorted == sort_by_len(appended)
    IN  [v EXCEPT !.file = Head(sorted), !.rest = Tail(sorted)]

\* a size that counts the kept file too
redundancy_size_with_kept(v) == v.size * (Len(v.rest) + 1)

get_redundancy_size(v) == v.size * Len(v.rest)

get_redundant_files_count(v) == Len(v.rest)

\* one line of output: the fields between the tabs
HeadLine(v) == [marker |-> "#", digest |-> v.digest, file |-> PathStr(v.file)]
RowLine(v, f) == [marker |-> " ", digest |-> v.digest, file |-> PathStr(f)]

\* the lines of str(v)
Unique_content_str(v) ==
    IF v.rest # <<>>
    THEN <<HeadLine(v)>> \o [i \in 1..Len(v.rest) |-> RowLine(v, v.rest[i])]
    ELSE <<HeadLine(v)>>

-----------------------------------------------------------------------------
(* class Unique_content_directory *)

Digests(reg) == {reg[i].digest : i \in 1..Len(reg)}

IndexOf(reg, digest) == CHOOSE i \in 1..Len(reg) : reg[i].digest = digest

Unique_content_directory_append(reg, f, file) ==
    LET digest == file_digest(f, file)
        size == getsize(f, file)
    IN  IF digest \in Digests(reg)
        THEN [reg EXCEPT ![IndexOf(reg, digest)] = Unique_content_append(@, file)]
        ELSE Append(reg, Unique_content(digest, file, size))

Unique_content_directory_reorder(reg) ==
    [i \in 1..Len(reg) |-> Unique_content_reorder(reg[i])]

HasDuplicates(v) == v.rest # <<>>

\* a remove_singles that keeps every group
remove_singles_keeps_all(reg) == reg

remove_singles(reg) == SelectSeq(reg, HasDuplicates)

RECURSIVE Unique_content_directory_get_redundancy_size(_)
Unique_content_directory_get_redundancy_size(reg) ==
    IF reg = <<>> THEN 0
    ELSE Unique_content_directory_get_redundancy_size(Front(reg))
         + get_redundancy_size(Last(reg))

RECURSIVE Unique_content_directory_get_redundant_files_count(_)
Unique_content_directory_get_redundant_files_count(reg) ==
    IF reg = <<>> THEN 0
    ELSE Unique_content_directory_get_redundant_files_count(Front(reg))
         + get_redundant_files_count(Last(reg))

RECURSIVE Body(_)
\* '\n'.join of the groups' renderings
Body(reg) ==
    IF reg = <<>> THEN <<>>
    ELSE Body(Front(reg)) \o Unique_content_str(Last(reg))

Stats(reg) ==
    << [marker |-> "#",
        n |-> Unique_content_directory_get_redundant_files_count(reg),
        text |-> "files can be deleted freeing"],
       [marker |-> "#",
        n |-> Unique_content_directory_get_redundancy_size(reg),
        text |-> "bytes of space"] >>

\* the lines of str(content_dir)
Unique_content_directory_str(reg) ==
    IF Body(reg) # <<>> THEN Body(reg) \o Stats(reg) ELSE Stats(reg)

\* a while loop that leaves the last duplicate of each group in place
pending_but_one(v) == Len(v.rest) > 1

\* line 89: while self.rest
pending(v) == v.rest # <<>>

\* the group remove_duplicates is working on: the first with files left
Current == CHOOSE i \in 1..Len(files) :
               /\ pending(files[i])
               /\ \A j \in 1..(i - 1) : ~pending(files[j])

-----------------------------------------------------------------------------
(* The trees a run may start on *)

Under(p, dir) == Len(p) > Len(dir) /\ SubSeq(p, 1, Len(dir)) = dir

FileEntry(c) == [kind |-> "file", content |-> c, target |-> NoPath]
DirEntry == [kind |-> "dir", content |-> <<>>, target |-> NoPath]
LinkEntry(t) == [kind |-> "link", content |-> <<>>, target |-> t]

Trees ==
    { [p \in {Root} \cup DOMAIN c \cup d \cup DOMAIN l |->
          IF p \in DOMAIN c THEN FileEntry(c[p])
          ELSE IF p \in DOMAIN l THEN LinkEntry(l[p])
          ELSE DirEntry] :
      c \in UNION {[S -> Contents] : S \in SUBSET FileSlots},
      d \in SUBSET {DirSlot},
      l \in UNION {[S -> LinkTargets] : S \in SUBSET {LinkSlot}} }

\* a file lies in a directory that exists
WellFormed(f) ==
    \A p \in DOMAIN f : p # Root => Front(p) \in DOMAIN f /\ f[Front(p)].kind = "dir"

-----------------------------------------------------------------------------
(* main *)

Init ==
    /\ fs \in {f \in Trees : WellFormed(f)}
    /\ flag \in {"-p", "-d"}
    /\ pc = "main"
    /\ stack = <<>>
    /\ files = <<>>
    /\ out = NoOutput
    /\ exc = NoPath
    /\ fs0 = fs
    /\ yielded = <<>>
    /\ resolved = <<>>
    /\ attempted = <<>>

\* lines 191-192: the registry is created and walk(directory) starts
Start ==
    /\ pc = "main"
    /\ \E names \in Orders(listdir(fs, Root)) :
          stack' = <<Frame(Root, names)>>
    /\ files' = <<>>
    /\ pc' = "walk"
    /\ UNCHANGED <<fs, flag, out, exc, fs0, yielded, resolved, attempted>>

\* lines 39-40 and 193: a file is yielded and appended to the registry
WalkYield ==
    /\ pc = "walk" /\ stack # <<>> /\ Top.names # <<>>
    /\ yields(fs, NextPath)
    /\ files' = Unique_content_directory_append(files, fs, NextPath)
    /\ yielded' = Append(yielded, NextPath)
    /\ stack' = Advanced
    /\ UNCHANGED <<fs, flag, pc, out, exc, fs0, resolved, attempted>>

\* lines 41-42: walk(path) starts on a subdirectory
WalkDescend ==
    /\ pc = "walk" /\ stack # <<>> /\ Top.names # <<>>
    /\ descends(fs, NextPath)
    /\ \E names \in Orders(listdir(fs, NextPath)) :
          stack' = Append(Advanced, Frame(NextPath, names))
    /\ UNCHANGED <<fs, flag, pc, files, out, exc, fs0, yielded, resolved, attempted>>

\* neither branch of lines 39-42 takes the entry
WalkSkip ==
    /\ pc = "walk" /\ stack # <<>> /\ Top.names # <<>>
    /\ ~yields(fs, NextPath) /\ ~descends(fs, NextPath)
    /\ stack' = Advanced
    /\ UNCHANGED <<fs, flag, pc, files, out, exc, fs0, yielded, resolved, attempted>>

\* a listing is exhausted: the generator returns; the outermost one ends the loop
WalkReturn ==
    /\ pc = "walk" /\ stack # <<>> /\ Top.names = <<>>
    /\ stack' = Below
    /\ pc' = IF Below = <<>> THEN "remove_singles" ELSE "walk"
    /\ UNCHANGED <<fs, flag, files, out, exc, fs0, yielded, resolved, attempted>>

\* line 194
RemoveSingles ==
    /\ pc = "remove_singles"
    /\ files' = remove_singles(files)
    /\ pc' = "reorder"
    /\ UNCHANGED <<fs, flag, stack, out, exc, fs0, yielded, resolved, attempted>>

\* lines 195-200: reorder, then the branch on the flag
Reorder ==
    /\ pc = "reorder"
    /\ files' = Unique_content_directory_reorder(files)
    /\ resolved' = files'
    /\ pc' = IF flag = "-p" THEN "print"
             ELSE IF flag = "-d" THEN "remove_duplicates" ELSE "done"
    /\ UNCHANGED <<fs, flag, stack, out, exc, fs0, yielded, attempted>>

\* a rendering that pops the duplicates it prints
Report_draining ==
    /\ pc = "print"
    /\ out' = Unique_content_directory_str(files)
    /\ files' = [i \in 1..Len(files) |-> [files[i] EXCEPT !.rest = <<>>]]
    /\ pc' = "done"
    /\ UNCHANGED <<fs, flag, stack, exc, fs0, yielded, resolved, attempted>>

\* an "if" where line 200 has "elif": the deletion follows the report
Report_then_delete ==
    /\ pc = "print"
    /\ out' = Unique_content_directory_str(files)
    /\ pc' = "remove_duplicates"
    /\ UNCHANGED <<fs, flag, stack, files, exc, fs0, yielded, resolved, attempted>>

\* line 199
Report ==
    /\ pc = "print"
    /\ out' = Unique_content_directory_str(files)
    /\ pc' = "done"
    /\ UNCHANGED <<fs, flag, stack, files, exc, fs0, yielded, resolved, attempted>>

\* a loop that catches the error of os.remove and goes on
RemoveOne_catching ==
    /\ pc = "remove_duplicates"
    /\ \E i \in 1..Len(files) : pending(files[i])
    /\ LET file == Last(files[Current].rest)
       IN  /\ files' = [files EXCEPT ![Current].rest = Front(@)]
           /\ attempted' = Append(attempted, file)
           /\ \E ok \in BOOLEAN :
                IF ok
                THEN fs' = unlink(fs, file) /\ UNCHANGED <<pc, exc>>
                ELSE exc' = file /\ UNCHANGED <<pc, fs>>
    /\ UNCHANGED <<flag, stack, out, fs0, yielded, resolved>>

\* lines 90-91: one turn of the while loop; os.remove succeeds or raises
RemoveOne ==
    /\ pc = "remove_duplicates"
    /\ \E i \in 1..Len(files) : pending(files[i])
    /\ LET file == Last(files[Current].rest)
       IN  /\ files' = [files EXCEPT ![Current].rest = Front(@)]
           /\ attempted' = Append(attempted, file)
           /\ \E ok \in BOOLEAN :
                IF ok
                THEN fs' = unlink(fs, file) /\ UNCHANGED <<pc, exc>>
                ELSE exc' = file /\ pc' = "crashed" /\ UNCHANGED fs
    /\ UNCHANGED <<flag, stack, out, fs0, yielded, resolved>>

\* lines 133-134: every group has been emptied
RemoveReturn ==
    /\ pc = "remove_duplicates"
    /\ \A i \in 1..Len(files) : ~pending(files[i])
    /\ pc' = "done"
    /\ UNCHANGED <<fs, flag, stack, files, out, exc, fs0, yielded, resolved, attempted>>

Next ==
    \/ Start
    \/ WalkYield
    \/ WalkDescend
    \/ WalkSkip
    \/ WalkReturn
    \/ RemoveSingles
    \/ Reorder
    \/ Report
    \/ RemoveOne
    \/ RemoveReturn

Spec == Init /\ [][Next]_vars

-----------------------------------------------------------------------------
(* Vocabulary of the properties *)

Range(l) == {l[i] : i \in 1..Len(l)}

\* the files the scan has consumed
Walked == Range(yielded)

\* the members of a group: the kept file and its duplicates
Members(v) == {v.file} \cup Range(v.rest)

\* every path in some duplicates list of the registry
Duplicates(reg) == UNION {Range(reg[i].rest) : i \in 1..Len(reg)}

\* the fingerprint a path had when the run started
Fingerprint(p) == file_digest(fs0, p)

\* the walked files that share the content of the group
SameContent(v) == {p \in Walked : Fingerprint(p) = v.digest}

\* position of a walked file in the order of discovery
Encounter(p) == CHOOSE i \in 1..Len(yielded) : yielded[i] = p

\* of a non-empty set of walked files, the one discovered first
FirstEncountered(S) == CHOOSE p \in S : \A q \in S : Encounter(p) <= Encounter(q)

\* the members of S whose path string is not longer than any other's
Shortest(S) == {p \in S : \A q \in S : len(p) <= len(q)}

\* the regular files reachable from the root through real directories
RegularFiles(f) ==
    {p \in DOMAIN f :
        /\ f[p].kind = "file"
        /\ \A k \in 1..(Len(p) - 1) : f[SubSeq(p, 1, k)].kind = "dir"}

Scanned == pc \notin {"main", "walk"}
Reordered == pc \in {"print", "remove_duplicates", "done", "crashed"}
\* scanned, and no duplicate has been popped for deletion yet
Intact == Scanned /\ attempted = <<>>

-----------------------------------------------------------------------------
(* C1 *)

\* C1: a delete-mode run whose removals all succeed ends with the filesystem
\* it started on minus exactly the paths reorder left in the duplicates
\* lists: every duplicate is gone, every survivor and every other entry is
\* there unchanged, and of the walked files exactly one per content remains.
C1_DeleteLeavesOnePerContent ==
    (pc = "done" /\ flag = "-d") =>
        /\ DOMAIN fs = DOMAIN fs0 \ Duplicates(resolved)
        /\ \A p \in DOMAIN fs : fs[p] = fs0[p]
        /\ \A i \in 1..Len(resolved) : resolved[i].file \in DOMAIN fs
        /\ Duplicates(resolved) \subseteq Walked
        /\ \A p \in Walked :
              Cardinality({q \in Walked \cap DOMAIN fs :
                              Fingerprint(q) = Fingerprint(p)}) = 1

\* two groups, each with a duplicate that has been removed
C1_Witness ==
    /\ pc = "done" /\ flag = "-d"
    /\ Len(resolved) = 2
    /\ Len(attempted) = 2
    /\ Range(attempted) \cap DOMAIN fs = {}

-----------------------------------------------------------------------------
(* C2 *)

\* C2: once reorder has run, no duplicate of a group has a shorter path
\* string than the group's survivor, and a member that is strictly shorter
\* than every other member of its group is the survivor.
C2_SurvivorIsShortest ==
    Reordered =>
        \A i \in 1..Len(files) :
            /\ \A d \in Range(files[i].rest) : len(files[i].file) <= len(d)
            /\ \A m \in SameContent(files[i]) :
                  (\A o \in SameContent(files[i]) \ {m} : len(m) < len(o))
                      => files[i].file = m

\* three files of one content and three lengths, the shortest found last
C2_Witness ==
    /\ pc = "print"
    /\ Len(files) = 1 /\ Len(files[1].rest) = 2
    /\ Cardinality({len(p) : p \in Walked}) = 3
    /\ files[1].file = yielded[3]

-----------------------------------------------------------------------------
(* C3 *)

\* C3 as stated: the survivor is, of the group's members of minimum path
\* length, the one the scan encountered first.
C3_FirstEncounteredWins ==
    Reordered =>
        \A i \in 1..Len(files) :
            files[i].file = FirstEncountered(Shortest(SameContent(files[i])))

\* C3 amended: the file that opened the group (the first encountered) is the
\* survivor only when it is strictly shorter than every other member;
\* otherwise the survivor is the first encountered of the shortest among the
\* other members, also when the opening file is as short as they are.
C3_FirstDuplicateWinsTies ==
    Reordered =>
        \A i \in 1..Len(files) :
            LET group == SameContent(files[i])
                opening == FirstEncountered(group)
                others == group \ {opening}
            IN  files[i].file =
                    IF \A o \in others : len(opening) < len(o)
                    THEN opening
                    ELSE FirstEncountered(Shortest(others))

\* the opening file ties with a later one for the minimum, and loses
C3_Witness ==
    /\ Reordered
    /\ \E i \in 1..Len(files) :
          LET group == SameContent(files[i])
          IN  /\ FirstEncountered(group) \in Shortest(group)
              /\ files[i].file # FirstEncountered(group)
              /\ Cardinality(group) = 3

-----------------------------------------------------------------------------
(* C6 *)

\* C6: after the scan and remove_singles every group of the registry has a
\* duplicate, and the registry holds a group for exactly the contents that
\* two or more walked files share.
C6_NoSingletonsKept ==
    (Intact /\ pc # "remove_singles") =>
        /\ \A i \in 1..Len(files) : files[i].rest # <<>>
        /\ Digests(files) =
              {Fingerprint(p) : p \in {q \in Walked :
                    \E o \in Walked : o # q /\ Fingerprint(o) = Fingerprint(q)}}

\* one content is kept with its duplicate and another one is dropped
C6_Witness ==
    /\ pc = "reorder"
    /\ Len(files) = 1
    /\ \E p \in Walked : Fingerprint(p) \notin Digests(files)

-----------------------------------------------------------------------------
(* C10 *)

\* C10: from the end of the scan on, while no duplicate has been popped for
\* deletion, every walked file of a retained content sits in exactly one
\* slot of the registry, in the group of its own fingerprint: a survivor
\* is not among its duplicates, no path appears twice, and every member of
\* a group has the group's digest.
C10_OneSlotPerFile ==
    Intact =>
        /\ \A i \in 1..Len(files) :
              /\ files[i].file \notin Range(files[i].rest)
              /\ Cardinality(Range(files[i].rest)) = Len(files[i].rest)
              /\ \A p \in Members(files[i]) : file_digest(fs, p) = files[i].digest
              /\ Members(files[i]) = SameContent(files[i])
        /\ \A i, j \in 1..Len(files) :
              i # j => /\ Members(files[i]) \cap Members(files[j]) = {}
                       /\ files[i].digest # files[j].digest

\* two reordered groups, the survivor of one found last
C10_Witness ==
    /\ pc = "remove_duplicates" /\ attempted = <<>>
    /\ Len(files) = 2
    /\ files[2].file = yielded[Len(yielded)]

-----------------------------------------------------------------------------
(* C4 *)

\* C4 as stated: a failing removal does not end the run; when the run is
\* over, deletion has been attempted for every duplicate of every group.
C4_EveryDuplicateAttempted ==
    (flag = "-d" /\ pc \in {"done", "crashed"}) =>
        Range(attempted) = Duplicates(resolved)

\* C4 amended: the first os.remove that fails ends the run with its
\* exception. The failing path is the last one deletion was attempted for,
\* it is still on disk, the files removed before it stay removed, and the
\* duplicates not yet reached are still on disk and in their lists, as is
\* every survivor.
C4_FirstFailureAborts ==
    exc # NoPath =>
        /\ pc = "crashed"
        /\ Last(attempted) = exc
        /\ exc \in DOMAIN fs
        /\ DOMAIN fs = DOMAIN fs0 \ (Range(attempted) \ {exc})
        /\ Duplicates(files) = Duplicates(resolved) \ Range(attempted)
        /\ Duplicates(files) \subseteq DOMAIN fs
        /\ \A i \in 1..Len(files) : files[i].file \in DOMAIN fs

\* the removal in the first group fails and the duplicate of the second
\* group is left unattempted
C4_Witness ==
    /\ pc = "crashed"
    /\ Len(files) = 2
    /\ Len(attempted) = 1
    /\ Duplicates(files) # {}

-----------------------------------------------------------------------------
(* C5 *)

\* C5: a report-mode run ends with the filesystem it started on and the
\* registry as reorder left it, and what it printed is the rendering of
\* that registry, so that rendering it again gives the same lines.
C5_ReportChangesNothing ==
    (pc = "done" /\ flag = "-p") =>
        /\ fs = fs0
        /\ files = resolved
        /\ out = Unique_content_directory_str(files)

\* a report that lists a kept file and two duplicates
C5_Witness ==
    /\ pc = "done" /\ flag = "-p"
    /\ Len(out) = 5

-----------------------------------------------------------------------------
(* C7 *)

RECURSIVE SumOver(_, _)
\* summed over the digests in S: the file size times the number of walked
\* files of that digest less one
SumOver(S, walked) ==
    IF S = {} THEN 0
    ELSE LET d == CHOOSE x \in S : TRUE
             same == {p \in walked : Fingerprint(p) = d}
             size == getsize(fs0, CHOOSE p \in same : TRUE)
         IN  size * (Cardinality(same) - 1) + SumOver(S \ {d}, walked)

\* the two lines of the summary
Summary == SubSeq(out, Len(out) - 1, Len(out))

\* C7: the summary of a report counts the walked files less one per distinct
\* digest among them, which is the number of duplicates in the registry, and
\* its byte total is, summed over the digests, the file size times the
\* number of duplicates; on a tree without files the report is the summary
\* alone, with 0 files and 0 bytes.
C7_SummaryTotals ==
    (pc = "done" /\ flag = "-p") =>
        /\ Len(out) >= 2
        /\ Summary[1].n = Cardinality(Duplicates(files))
        /\ Summary[1].n =
              Cardinality(Walked) - Cardinality({Fingerprint(p) : p \in Walked})
        /\ Summary[2].n = SumOver({Fingerprint(p) : p \in Walked}, Walked)
        /\ Walked = {} => (Len(out) = 2 /\ Summary[1].n = 0 /\ Summary[2].n = 0)

\* a duplicate of an empty file and a duplicate of a one-byte file
C7_Witness ==
    /\ pc = "done" /\ flag = "-p"
    /\ Len(files) = 2
    /\ Len(out) = 6
    /\ out[5].n = 2 /\ out[6].n = 1

-----------------------------------------------------------------------------
(* C8 *)

\* C8: walk yields every regular file that is reachable from the root
\* through real directories, each once and nothing else; it never lists
\* through a symbolic link, and no symbolic link is yielded, put in a
\* group, handed to os.remove or removed.
C8_LinksNeitherYieldedNorEntered ==
    /\ \A k \in 1..Len(stack) :
          /\ stack[k].dirname \in DOMAIN fs0
          /\ fs0[stack[k].dirname].kind = "dir"
    /\ Walked \subseteq RegularFiles(fs0)
    /\ Len(yielded) = Cardinality(Walked)
    /\ Scanned => Walked = RegularFiles(fs0)
    /\ \A i \in 1..Len(files) : Members(files[i]) \subseteq RegularFiles(fs0)
    /\ Range(attempted) \subseteq RegularFiles(fs0)
    /\ \A p \in DOMAIN fs0 : fs0[p].kind = "link" => (p \in DOMAIN fs /\ fs[p] = fs0[p])

\* a tree with a link to a directory that holds files with duplicates
C8_Witness ==
    /\ pc = "done" /\ flag = "-d"
    /\ LinkSlot \in DOMAIN fs0 /\ fs0[LinkSlot].target = DirSlot
    /\ Cardinality({p \in Walked : Under(p, DirSlot)}) = 2
    /\ attempted # <<>>

-----------------------------------------------------------------------------
(* C9 *)

\* the successors main allows to each position
Order ==
    { <<"main", "walk">>, <<"walk", "remove_singles">>,
      <<"remove_singles", "reorder">>,
      <<"reorder", "print">>, <<"reorder", "remove_duplicates">>,
      <<"print", "done">>,
      <<"remove_duplicates", "done">>, <<"remove_duplicates", "crashed">> }

\* nothing has been printed, and nothing handed to os.remove or removed
Untouched == out = NoOutput /\ attempted = <<>> /\ fs = fs0

\* C9: a run passes through scan, remove_singles and reorder in this order
\* and then either reports or deletes. Until reorder is done nothing is
\* printed or deleted; by then the walk is exhausted, no singleton is in the
\* registry and every group is reordered; and no run both prints and deletes.
C9_PhaseOrder ==
    /\ [](~Reordered => Untouched)
    /\ [](Reordered =>
            /\ stack = <<>>
            /\ Walked = RegularFiles(fs0)
            /\ \A i \in 1..Len(resolved) :
                  /\ resolved[i].rest # <<>>
                  /\ resolved[i].file \in Shortest(Members(resolved[i])))
    /\ [](out = NoOutput \/ (attempted = <<>> /\ fs = fs0))
    /\ [](flag = "-p" => attempted = <<>>)
    /\ [](flag = "-d" => out = NoOutput)
    /\ [][pc' # pc => <<pc, pc'>> \in Order]_vars

\* a report has been printed for a registry with a group in it
C9_Witness ==
    /\ pc = "done" /\ flag = "-p"
    /\ resolved # <<>>
    /\ out # NoOutput

====
